---- MODULE Spec2Model ----
(***************************************************************************)
(* sentry-actix: the request-scoped reporting middleware                   *)
(* (sentry-actix/src/lib.rs).  One middleware instance on one worker       *)
(* thread: the builder configures it, every request gets a hub of its own, *)
(* the inner service's future is polled with that hub bound as the         *)
(* thread's current hub, and the outcome is inspected and reported.        *)
(***************************************************************************)
EXTENDS Integers, Sequences, FiniteSets, TLC

VARIABLES
    phase,       \* "building" | "serving" | "closed"
    middleware,  \* Sentry {hub, emit_header, capture_server_errors}
    client,      \* the client bound to the parent hub: None or Some(options)
    hubs,        \* hub id -> [transaction, processors, last_event_id, session]
    current,     \* the thread's current (ambient) hub
    guard,       \* the hub saved by the live HubSwitchGuard, or None
    polling,     \* the request whose future the thread is polling, 0 if none
    pc,          \* request -> "idle" | "pending" | "running" | "inner_done" | "done"
    http,        \* request -> the ServiceRequest it was called with
    hubOf,       \* request -> the hub `call` created for it
    inner,       \* request -> what the inner service's future resolved to
    out,         \* request -> what the middleware's future resolved to
    events,      \* the events the client's transport received, in order
    reported,    \* request -> the ids hub.capture_error returned to the middleware
    captures,    \* request -> how many events its handler captured itself
    overridden,  \* request -> the handler has set the transaction label
    suspends,    \* request -> how often its inner future returned Pending
    exited,      \* sessions ended so far (held by the session flusher)
    envelopes    \* the session-aggregate reports emitted

vars == <<phase, middleware, client, hubs, current, guard, polling, pc, http,
          hubOf, inner, out, events, reported, captures, overridden, suspends,
          exited, envelopes>>

(***************************************************************************)
(* Bounds of the model.                                                    *)
(***************************************************************************)
MaxRequests == 2
\* events captured by application code, over all handlers
MaxCaptures == 1
\* Pending polls, over all requests
MaxSuspends == 1

Requests == 1..MaxRequests

RECURSIVE Total(_, _)
Total(f, n) == IF n = 0 THEN 0 ELSE f[n] + Total(f, n - 1)

None == <<>>
Some(x) == <<x>>
IsSome(o) == o # None
Unwrap(o) == o[1]

(***************************************************************************)
(* Hubs.  MainHub is the process default (Hub::main), which is also the    *)
(* worker thread's current hub outside any poll; ExplicitHub is a hub the  *)
(* application hands to SentryBuilder::with_hub; request r's hub is        *)
(* RequestHubId(r).                                                        *)
(***************************************************************************)
MainHub == 0
ExplicitHub == 1
RequestHubId(r) == r + 1
HubIds == 0..(MaxRequests + 1)

EmptyScope == [transaction |-> None, processors |-> <<>>,
               last_event_id |-> None, session |-> "none"]

(***************************************************************************)
(* The inputs: requests, client options, what the inner service returns.   *)
(***************************************************************************)
HttpRequests ==
    { [method |-> "GET", scheme |-> "http", host |-> "localhost",
       uri |-> "/test", match_name |-> None, match_pattern |-> Some("/test"),
       headers |-> [h \in {"accept"} |-> "*/*"], remote_addr |-> Some("127.0.0.1")],
      [method |-> "POST", scheme |-> "https", host |-> "example.org",
       uri |-> "/fail", match_name |-> Some("failing"), match_pattern |-> Some("/fail"),
       headers |-> [h \in {} |-> ""], remote_addr |-> None] }

ClientOptions ==
    { [auto_session_tracking |-> TRUE,  session_mode |-> "Request",     send_default_pii |-> FALSE],
      [auto_session_tracking |-> TRUE,  session_mode |-> "Application", send_default_pii |-> TRUE],
      [auto_session_tracking |-> FALSE, session_mode |-> "Request",     send_default_pii |-> TRUE] }

Clients == {None} \cup {Some(o) : o \in ClientOptions}

\* Sentry::new
Sentry_new == [hub |-> None, emit_header |-> FALSE, capture_server_errors |-> TRUE]

Init ==
    /\ phase = "building"
    /\ middleware = Sentry_new
    /\ client \in Clients
    /\ hubs = [h \in HubIds |-> EmptyScope]
    /\ current = MainHub
    /\ guard = None
    /\ polling = 0
    /\ pc = [r \in Requests |-> "idle"]
    /\ http = [r \in Requests |-> None]
    /\ hubOf = [r \in Requests |-> None]
    /\ inner = [r \in Requests |-> None]
    /\ out = [r \in Requests |-> None]
    /\ events = <<>>
    /\ reported = [r \in Requests |-> <<>>]
    /\ captures = [r \in Requests |-> 0]
    /\ overridden = [r \in Requests |-> FALSE]
    /\ suspends = [r \in Requests |-> 0]
    /\ exited = 0
    /\ envelopes = <<>>

serving == <<hubs, current, guard, polling, pc, http, hubOf, inner, out, events,
             reported, captures, overridden, suspends, exited, envelopes>>

(***************************************************************************)
(* SentryBuilder                                                           *)
(***************************************************************************)
with_hub ==
    /\ phase = "building"
    /\ middleware' = [middleware EXCEPT !.hub = Some(ExplicitHub)]
    /\ UNCHANGED <<phase, client, serving>>

with_default_hub ==
    /\ phase = "building"
    /\ middleware' = [middleware EXCEPT !.hub = None]
    /\ UNCHANGED <<phase, client, serving>>

emit_header(val) ==
    /\ phase = "building"
    /\ middleware' = [middleware EXCEPT !.emit_header = val]
    /\ UNCHANGED <<phase, client, serving>>

capture_server_errors(val) ==
    /\ phase = "building"
    /\ middleware' = [middleware EXCEPT !.capture_server_errors = val]
    /\ UNCHANGED <<phase, client, serving>>

\* SentryBuilder::finish, then Transform::new_transform: the instance serves.
finish ==
    /\ phase = "building"
    /\ phase' = "serving"
    /\ UNCHANGED <<middleware, client, serving>>

(***************************************************************************)
(* The pure functions of the middleware.                                   *)
(***************************************************************************)
\* sentry_request_from_http: (transaction, sentry_req)
sentry_request_from_http(request, pii) ==
    [transaction |-> IF IsSome(request.match_name)
                     THEN request.match_name
                     ELSE request.match_pattern,
     sentry_req  |-> [url     |-> Some(<<request.scheme, "://", request.host, request.uri>>),
                      method  |-> Some(request.method),
                      headers |-> request.headers,
                      env     |-> IF pii /\ IsSome(request.remote_addr)
                                  THEN [k \in {"REMOTE_ADDR"} |-> Unwrap(request.remote_addr)]
                                  ELSE [k \in {} |-> ""]]]

ActixPackage == [name |-> "sentry-actix", version |-> "CARGO_PKG_VERSION"]

\* A bug process_event could have: the event's own request data is overwritten.
ProcessEventOverwriting(event, request) ==
    [event EXCEPT !.request = Some(request),
                  !.sdk = IF IsSome(@)
                          THEN Some([Unwrap(@) EXCEPT !.packages = Append(@, ActixPackage)])
                          ELSE None]

\* process_event
process_event(event, request) ==
    [event EXCEPT !.request = IF @ = None THEN Some(request) ELSE @,
                  !.sdk = IF IsSome(@)
                          THEN Some([Unwrap(@) EXCEPT !.packages = Append(@, ActixPackage)])
                          ELSE None]

\* The event processor `call` installs: the closure over sentry_req.
EventProcessor(sentry_req, event) == Some(process_event(event, sentry_req))

\* StatusCode::is_server_error, as `call` uses it on the response
IsServerError(status) == status >= 500 /\ status < 600

(***************************************************************************)
(* Uuid and its simple form: 16 bytes, printed as 32 lower-case hex        *)
(* digits without hyphens.  The nil Uuid is all zero.                      *)
(***************************************************************************)
HexDigits == <<"0", "1", "2", "3", "4", "5", "6", "7",
               "8", "9", "a", "b", "c", "d", "e", "f">>

UuidBytes(n) == [i \in 1..16 |-> IF i = 16 THEN n % 256
                                 ELSE IF i = 15 THEN (n \div 256) % 256 ELSE 0]

\* event_id.to_simple_ref().to_string()
ToSimple(bytes) ==
    [i \in 1..32 |-> IF i % 2 = 1
                     THEN HexDigits[(bytes[(i + 1) \div 2] \div 16) + 1]
                     ELSE HexDigits[(bytes[i \div 2] % 16) + 1]]

\* HeaderMap::insert
Insert(headers, name, value) ==
    [k \in DOMAIN headers \cup {name} |-> IF k = name THEN value ELSE headers[k]]

(***************************************************************************)
(* The reporting client, as the middleware uses it: Hub::new_from_top,     *)
(* Hub::capture_event / capture_error / capture_message, Scope.            *)
(***************************************************************************)
ClientSdk == [name |-> "sentry.rust", packages |-> <<>>]
CustomSdk == [name |-> "custom.sdk", packages |-> <<[name |-> "custom", version |-> "1"]>>]
CustomRequest == [url |-> None, method |-> Some("CUSTOM"),
                  headers |-> [h \in {} |-> ""], env |-> [k \in {} |-> ""]]

\* What application code captures inside a handler.
AppEvents ==
    { [kind |-> "message", level |-> "warning", transaction |-> None,
       request |-> None, sdk |-> None],
      [kind |-> "event", level |-> "info", transaction |-> None,
       request |-> Some(CustomRequest), sdk |-> Some(CustomSdk)] }

\* The event Hub::capture_error builds from an error.
ErrorEvent == [kind |-> "error", level |-> "error", transaction |-> None,
               request |-> None, sdk |-> None]

\* Hub::new_from_top: the parent's client and a clone of its top scope; no
\* last event, no session.
new_from_top(parent) ==
    [hubs[parent] EXCEPT !.last_event_id = None, !.session = "none"]

RECURSIVE ApplyProcessors(_, _)
\* Scope::apply_to_event's loop over the event processors
ApplyProcessors(processors, event) ==
    IF processors = <<>> THEN Some(event)
    ELSE LET e == EventProcessor(Head(processors), event)
         IN IF e = None THEN None ELSE ApplyProcessors(Tail(processors), Unwrap(e))

\* Client::prepare_event: the id and the SDK info are set, then the scope is
\* applied (its transaction where the event has none, its processors).
PrepareEvent(h, raw, id) ==
    LET e1 == [event_id |-> id, kind |-> raw.kind, level |-> raw.level,
               transaction |-> IF raw.transaction = None
                               THEN hubs[h].transaction ELSE raw.transaction,
               request |-> raw.request,
               sdk |-> IF raw.sdk = None THEN Some(ClientSdk) ELSE raw.sdk]
    IN ApplyProcessors(hubs[h].processors, e1)

\* The id of the next event: a fresh Uuid (0 is the nil Uuid).
FreshId == Len(events) + 1

\* Hub::capture_event's return value: nil without a client or when dropped.
CaptureId(h, raw) ==
    IF client = None \/ PrepareEvent(h, raw, FreshId) = None THEN 0 ELSE FreshId

\* The transport after Hub::capture_event of `raw` on hub h.  Beside the event
\* an entry records where it came from: the hub, the request whose handler or
\* middleware future captured it, the event as handed in, and whether that
\* request's handler had set the transaction label by then.
Captured(h, raw, by) ==
    IF CaptureId(h, raw) = 0 THEN events
    ELSE Append(events, [event |-> Unwrap(PrepareEvent(h, raw, FreshId)),
                         hub |-> h, by |-> by, raw |-> raw,
                         after_override |-> overridden[by]])

\* The hubs after Hub::capture_event on hub h: it remembers the id.
Remembering(hs, h, raw) ==
    IF client = None THEN hs
    ELSE [hs EXCEPT ![h].last_event_id = Some(CaptureId(h, raw))]

(***************************************************************************)
(* SentryMiddleware::call, up to the creation of the future.               *)
(***************************************************************************)
\* inner.hub.clone().unwrap_or_else(Hub::main)
Parent == IF IsSome(middleware.hub) THEN Unwrap(middleware.hub) ELSE MainHub

\* A bug: the request works on the parent hub itself.
ReusedParentHub(r) == [id |-> Parent, state |-> hubs[Parent]]

\* let hub = Arc::new(Hub::new_from_top(...))
RequestHub(r) == [id |-> RequestHubId(r), state |-> new_from_top(Parent)]

\* A bug: the session mode is not looked at.
TrackSessionsAnyMode == IsSome(client) /\ Unwrap(client).auto_session_tracking

\* let track_sessions = ...
track_sessions ==
    /\ IsSome(client)
    /\ Unwrap(client).auto_session_tracking
    /\ Unwrap(client).session_mode = "Request"

\* let with_pii = ...
with_pii == IsSome(client) /\ Unwrap(client).send_default_pii

\* A bug: the event processor is not installed.
ConfiguredWithoutProcessor(scope, tx, sentry_req) ==
    [scope EXCEPT !.transaction = tx]

\* hub.configure_scope(|scope| { set_transaction; add_event_processor })
ConfiguredScope(scope, tx, sentry_req) ==
    [scope EXCEPT !.transaction = tx, !.processors = Append(@, sentry_req)]

call(r, req) ==
    /\ phase = "serving"
    /\ polling = 0
    /\ pc[r] = "idle"
    /\ \A q \in Requests : q < r => pc[q] # "idle"
    /\ LET hub == RequestHub(r)
           started == [hub.state EXCEPT !.session = IF track_sessions THEN "active" ELSE @]
           built == sentry_request_from_http(req, with_pii)
       IN /\ hubs' = [hubs EXCEPT ![hub.id] =
                         ConfiguredScope(started, built.transaction, built.sentry_req)]
          /\ hubOf' = [hubOf EXCEPT ![r] = Some(hub.id)]
    /\ http' = [http EXCEPT ![r] = Some(req)]
    /\ pc' = [pc EXCEPT ![r] = "pending"]
    /\ UNCHANGED <<phase, middleware, client, current, guard, polling, inner, out,
                   events, reported, captures, overridden, suspends, exited, envelopes>>

(***************************************************************************)
(* The future `call` returns: self.service.call(req).bind_hub(hub.clone()) *)
(* polled by the worker thread.  A poll of the bound future switches the   *)
(* thread's current hub for as long as the inner future runs.              *)
(***************************************************************************)
\* A bug: the parent hub is bound instead of the request's.
BoundParent(r) == Parent

\* .bind_hub(hub.clone())
BoundHub(r) == Unwrap(hubOf[r])

\* SentryFuture::poll begins: HubSwitchGuard::new swaps the current hub.
poll(r) ==
    /\ phase = "serving"
    /\ polling = 0
    /\ pc[r] = "pending"
    /\ guard' = Some(current)
    /\ current' = BoundHub(r)
    /\ polling' = r
    /\ pc' = [pc EXCEPT ![r] = "running"]
    /\ UNCHANGED <<phase, middleware, client, hubs, http, hubOf, inner, out, events,
                   reported, captures, overridden, suspends, exited, envelopes>>

\* Application code in the handler: sentry::capture_message / capture_event,
\* which act on Hub::current().
HandlerCapture(r, raw) ==
    /\ pc[r] = "running"
    /\ Total(captures, MaxRequests) < MaxCaptures
    /\ events' = Captured(current, raw, r)
    /\ hubs' = Remembering(hubs, current, raw)
    /\ captures' = [captures EXCEPT ![r] = @ + 1]
    /\ UNCHANGED <<phase, middleware, client, current, guard, polling, pc, http, hubOf,
                   inner, out, reported, overridden, suspends, exited, envelopes>>

\* Application code in the handler:
\* sentry::configure_scope(|scope| scope.set_transaction(Some("new_transaction")))
HandlerSetTransaction(r) ==
    /\ pc[r] = "running"
    /\ ~overridden[r]
    /\ hubs' = [hubs EXCEPT ![current].transaction = Some("new_transaction")]
    /\ overridden' = [overridden EXCEPT ![r] = TRUE]
    /\ UNCHANGED <<phase, middleware, client, current, guard, polling, pc, http, hubOf,
                   inner, out, events, reported, captures, suspends, exited, envelopes>>

\* The inner future returns Pending: the guard is dropped, the thread is free.
HandlerPending(r) ==
    /\ pc[r] = "running"
    /\ Total(suspends, MaxRequests) < MaxSuspends
    /\ current' = Unwrap(guard)
    /\ guard' = None
    /\ polling' = 0
    /\ pc' = [pc EXCEPT ![r] = "pending"]
    /\ suspends' = [suspends EXCEPT ![r] = @ + 1]
    /\ UNCHANGED <<phase, middleware, client, hubs, http, hubOf, inner, out, events,
                   reported, captures, overridden, exited, envelopes>>

\* What the inner service's future may resolve to.
Responses ==
    { [kind |-> "ok", status |-> 200, error |-> None, headers |-> [h \in {} |-> <<>>]],
      [kind |-> "ok", status |-> 404, error |-> None, headers |-> [h \in {} |-> <<>>]],
      [kind |-> "ok", status |-> 404, error |-> Some("Not Found"),
       headers |-> [h \in {} |-> <<>>]],
      [kind |-> "ok", status |-> 500, error |-> Some("Test Error"),
       headers |-> [h \in {} |-> <<>>]],
      [kind |-> "ok", status |-> 503, error |-> None,
       headers |-> [h \in {"x-sentry-event"} |-> <<"u", "p">>]] }

Failures ==
    { [kind |-> "err", status |-> 500, error |-> Some("Test Error"),
       headers |-> [h \in {} |-> <<>>]] }

Outcomes == Responses \cup Failures

\* The inner future returns Ready(res): the guard is dropped and the
\* middleware's async block goes on inside the same poll of its own future.
HandlerReady(r, res) ==
    /\ pc[r] = "running"
    /\ inner' = [inner EXCEPT ![r] = Some(res)]
    /\ current' = Unwrap(guard)
    /\ guard' = None
    /\ pc' = [pc EXCEPT ![r] = "inner_done"]
    /\ UNCHANGED <<phase, middleware, client, hubs, polling, http, hubOf, out, events,
                   reported, captures, overridden, suspends, exited, envelopes>>

(***************************************************************************)
(* The async block of `call` after fut.await.                              *)
(***************************************************************************)
\* A bug: a failure of the service is never reported.
ServiceErrorIgnored(mw, res) == FALSE

\* A bug: a failure of the service is reported whatever the configuration.
ServiceErrorAlwaysCaptured(mw, res) == res.kind = "err"

\* Err(e) => if inner.capture_server_errors { hub.capture_error(&e) }
ServiceErrorCaptured(mw, res) ==
    res.kind = "err" /\ mw.capture_server_errors

\* A bug: every error status is taken for a server error.
ResponseErrorCapturedAnyError(mw, res) ==
    /\ res.kind = "ok"
    /\ mw.capture_server_errors
    /\ res.status >= 400 /\ res.status < 600
    /\ IsSome(res.error)

\* if inner.capture_server_errors && status.is_server_error() { if let Some(e) = error() ..
ResponseErrorCaptured(mw, res) ==
    /\ res.kind = "ok"
    /\ mw.capture_server_errors
    /\ IsServerError(res.status)
    /\ IsSome(res.error)

\* A bug: the header is set whether or not emit_header is configured.
HeaderAlwaysEmitted(mw, res) == ResponseErrorCaptured(mw, res)

\* if inner.emit_header { headers_mut().insert(..) }
HeaderEmitted(mw, res) == ResponseErrorCaptured(mw, res) /\ mw.emit_header

\* What the middleware's future resolves to: Err(e) as it came, or Ok(res)
\* with the header inserted.
Returned(mw, res, event_id) ==
    IF HeaderEmitted(mw, res)
    THEN [res EXCEPT !.headers = Insert(@, "x-sentry-event", ToSimple(UuidBytes(event_id)))]
    ELSE res

\* A bug: the report goes to the thread's current hub.
ReportCurrent(r) == current

\* hub.capture_error(..): the hub `call` created, moved into the async block
ReportHub(r) == Unwrap(hubOf[r])

\* The hub is dropped with the future: its session ends.
Dropped(hs, h) ==
    [hs EXCEPT ![h].session = IF @ = "active" THEN "ended" ELSE @]

Complete(r) ==
    /\ pc[r] = "inner_done"
    /\ LET res == Unwrap(inner[r])
           hub == Unwrap(hubOf[r])
           capture == ServiceErrorCaptured(middleware, res)
                      \/ ResponseErrorCaptured(middleware, res)
           to == ReportHub(r)
           event_id == CaptureId(to, ErrorEvent)
       IN /\ events' = IF capture THEN Captured(to, ErrorEvent, r) ELSE events
          /\ reported' = IF capture THEN [reported EXCEPT ![r] = Append(@, event_id)]
                         ELSE reported
          /\ out' = [out EXCEPT ![r] = Some(Returned(middleware, res, event_id))]
          /\ hubs' = Dropped(IF capture THEN Remembering(hubs, to, ErrorEvent) ELSE hubs, hub)
          /\ exited' = IF hubs[hub].session = "active" THEN exited + 1 ELSE exited
    /\ polling' = 0
    /\ pc' = [pc EXCEPT ![r] = "done"]
    /\ UNCHANGED <<phase, middleware, client, current, guard, http, hubOf, inner,
                   captures, overridden, suspends, envelopes>>

\* The client is closed: the session flusher sends what it aggregated.
Close ==
    /\ phase = "serving"
    /\ \A r \in Requests : pc[r] \in {"idle", "done"}
    /\ phase' = "closed"
    /\ envelopes' = IF exited > 0 THEN Append(envelopes, [exited |-> exited])
                    ELSE envelopes
    /\ UNCHANGED <<middleware, client, hubs, current, guard, polling, pc, http, hubOf,
                   inner, out, events, reported, captures, overridden, suspends, exited>>

Next ==
    \/ with_hub
    \/ with_default_hub
    \/ \E val \in BOOLEAN : emit_header(val)
    \/ \E val \in BOOLEAN : capture_server_errors(val)
    \/ finish
    \/ \E r \in Requests, req \in HttpRequests : call(r, req)
    \/ \E r \in Requests : poll(r)
    \/ \E r \in Requests, raw \in AppEvents : HandlerCapture(r, raw)
    \/ \E r \in Requests : HandlerSetTransaction(r)
    \/ \E r \in Requests : HandlerPending(r)
    \/ \E r \in Requests, res \in Outcomes : HandlerReady(r, res)
    \/ \E r \in Requests : Complete(r)
    \/ Close

Spec == Init /\ [][Next]_vars

(***************************************************************************)
(* Properties.                                                             *)
(***************************************************************************)
HasClient == client # None
Entries == {events[i] : i \in DOMAIN events}
IsMiddlewareReport(r, e) == e.by = r /\ e.raw.kind = "error"
IsHandlerCapture(r, e) == e.by = r /\ e.raw.kind # "error"
MiddlewareReports(r) == Cardinality({i \in DOMAIN events : IsMiddlewareReport(r, events[i])})
HandlerCaptures(r) == Cardinality({i \in DOMAIN events : IsHandlerCapture(r, events[i])})
RouteLabel(r) == LET q == Unwrap(http[r])
                 IN IF q.match_name # None THEN q.match_name ELSE q.match_pattern
Failed(r) ==
    /\ pc[r] = "done"
    /\ \/ Unwrap(inner[r]).kind = "err"
       \/ /\ Unwrap(inner[r]).status \in 500..599
          /\ Unwrap(inner[r]).error # None

\* C1: whenever a handler is running and has itself captured nothing yet
\* (in particular at its entry), the ambient hub has no last event id,
\* whatever earlier requests captured.
C1_NotSticky ==
    \A r \in Requests :
        (pc[r] = "running" /\ captures[r] = 0) => hubs[current].last_event_id = None

\* Request 2's handler is entered after request 1 captured an event on its
\* own ambient hub, which remembers it.
C1_Witness ==
    /\ HasClient
    /\ pc[1] = "done" /\ captures[1] = 1
    /\ hubs[Unwrap(hubOf[1])].last_event_id # None
    /\ pc[2] = "running" /\ captures[2] = 0 /\ suspends[2] = 0

\* C2: while a request's inner future runs, the thread's current hub is
\* that request's own hub, not the parent, not the process hub and not any
\* other request's hub; whenever no inner future runs (before a poll, after
\* Pending, after Ready with a response or a failure) the current hub is the
\* one that was ambient before.
C2_AmbientIsOwn ==
    /\ \A r \in Requests :
          pc[r] = "running" =>
             /\ polling = r
             /\ hubOf[r] = Some(current)
             /\ current \notin {Parent, MainHub, ExplicitHub}
             /\ \A q \in Requests \ {r} : hubOf[q] # Some(current)
             /\ guard = Some(MainHub)
    /\ (\A r \in Requests : pc[r] # "running") => (current = MainHub /\ guard = None)

\* Request 2 runs again after a suspension while request 1 is in flight.
C2_Witness ==
    /\ pc[1] = "pending"
    /\ pc[2] = "running" /\ suspends[2] = 1
    /\ hubOf[1] # hubOf[2]

\* C3: a failure of the inner service is what the middleware returns, as
\* it came, under every configuration; it is reported to the request's hub
\* once if capture_server_errors is set and not at all otherwise.
C3_FailurePropagated ==
    \A r \in Requests :
        (pc[r] = "done" /\ Unwrap(inner[r]).kind = "err") =>
            /\ out[r] = inner[r]
            /\ Len(reported[r]) = (IF middleware.capture_server_errors THEN 1 ELSE 0)
            /\ HasClient =>
                 /\ MiddlewareReports(r) = Len(reported[r])
                 /\ \A e \in Entries : IsMiddlewareReport(r, e) => Some(e.hub) = hubOf[r]

C3_Witness ==
    \E r \in Requests :
        /\ pc[r] = "done" /\ Unwrap(inner[r]).kind = "err"
        /\ HasClient
        /\ ~middleware.capture_server_errors
        /\ middleware.emit_header

\* C4: with capture_server_errors set, a request that ended in a failure
\* or in a server-error response carrying its error was reported exactly
\* once, and the transport holds as many middleware reports as there are
\* such requests.
C4_OnePerFailure ==
    middleware.capture_server_errors =>
        /\ \A r \in Requests :
              Failed(r) => /\ Len(reported[r]) = 1
                           /\ HasClient => MiddlewareReports(r) = 1
        /\ HasClient =>
              Cardinality({i \in DOMAIN events : events[i].raw.kind = "error"})
                 = Cardinality({r \in Requests : Failed(r)})

\* Two requests, one failing through each channel, two reports.
C4_Witness ==
    /\ middleware.capture_server_errors /\ HasClient
    /\ Failed(1) /\ Failed(2)
    /\ Unwrap(inner[1]).kind = "err" /\ Unwrap(inner[2]).kind = "ok"
    /\ MiddlewareReports(1) = 1 /\ MiddlewareReports(2) = 1

\* C5: a request answered with a 4xx response is not reported by the
\* middleware under any configuration, with or without an error attached:
\* the transport holds for it only what its handler captured itself, and
\* the response is returned as it came.
C5_ClientErrorsNotReported ==
    \A r \in Requests :
        (/\ pc[r] = "done"
         /\ Unwrap(inner[r]).kind = "ok"
         /\ Unwrap(inner[r]).status \in 400..499) =>
            /\ reported[r] = <<>>
            /\ MiddlewareReports(r) = 0
            /\ HandlerCaptures(r) = (IF HasClient THEN captures[r] ELSE 0)
            /\ out[r] = inner[r]

C5_Witness ==
    \E r \in Requests :
        /\ pc[r] = "done"
        /\ Unwrap(inner[r]).kind = "ok" /\ Unwrap(inner[r]).status = 404
        /\ Unwrap(inner[r]).error # None
        /\ middleware.capture_server_errors /\ HasClient
        /\ captures[r] = 0 /\ HandlerCaptures(r) = 0

HexValue(c) == CHOOSE v \in 0..15 : HexDigits[v + 1] = c
\* The bytes a 32-digit simple form stands for.
FromSimple(str) == [i \in 1..16 |-> 16 * HexValue(str[2 * i - 1]) + HexValue(str[2 * i])]

\* C6: a response of the inner service comes back with x-sentry-event set
\* by the middleware exactly if capture_server_errors and emit_header are
\* set, the status is a server error and an error is attached.  Its value
\* is then 32 hex digits that spell the id the report of that error
\* returned for this request; otherwise the response is returned as it came.
C6_HeaderIff ==
    \A r \in Requests :
        (pc[r] = "done" /\ Unwrap(inner[r]).kind = "ok") =>
            LET res == Unwrap(inner[r])
                ret == Unwrap(out[r])
            IN IF /\ middleware.capture_server_errors
                  /\ middleware.emit_header
                  /\ res.status \in 500..599
                  /\ res.error # None
               THEN /\ Len(reported[r]) = 1
                    /\ DOMAIN ret.headers = DOMAIN res.headers \cup {"x-sentry-event"}
                    /\ Len(ret.headers["x-sentry-event"]) = 32
                    /\ FromSimple(ret.headers["x-sentry-event"]) = UuidBytes(reported[r][1])
                    /\ [ret EXCEPT !.headers = res.headers] = res
                    /\ HasClient =>
                          \E e \in Entries : /\ IsMiddlewareReport(r, e)
                                             /\ e.event.event_id = reported[r][1]
                                             /\ Some(e.hub) = hubOf[r]
               ELSE ret = res

\* The second of two reported server errors: its header spells its own id.
C6_Witness ==
    /\ HasClient /\ middleware.emit_header /\ middleware.capture_server_errors
    /\ Failed(1) /\ Failed(2)
    /\ Unwrap(inner[2]).kind = "ok"
    /\ reported[1] # reported[2]
    /\ "x-sentry-event" \in DOMAIN Unwrap(out[2]).headers

\* C7: every message a handler captures on the ambient hub is in the
\* transport exactly once, captured on that request's hub, with the request
\* snapshot (method) of that request and the transaction label the request
\* had at that moment.
C7_MessageOnce ==
    HasClient =>
        /\ \A r \in Requests : HandlerCaptures(r) = captures[r]
        /\ \A e \in Entries :
              e.raw.kind = "message" =>
                 LET q == Unwrap(http[e.by])
                 IN /\ Some(e.hub) = hubOf[e.by]
                    /\ e.event.request # None
                    /\ Unwrap(e.event.request).method = Some(q.method)
                    /\ Unwrap(e.event.request).url = Some(<<q.scheme, "://", q.host, q.uri>>)
                    /\ e.event.transaction = IF e.after_override
                                             THEN Some("new_transaction")
                                             ELSE RouteLabel(e.by)

\* Request 2, unlike request 1 in method and route, captured a message.
C7_Witness ==
    /\ HasClient
    /\ pc[1] = "done" /\ pc[2] = "done"
    /\ http[1] # http[2]
    /\ \E e \in Entries : e.by = 2 /\ e.raw.kind = "message" /\ ~e.after_override

\* C8: the event the middleware reports for a request whose handler set
\* the transaction label carries that label, not the route's; without an
\* override it carries the route's.
C8_OverrideCarried ==
    \A e \in Entries :
        e.raw.kind = "error" =>
            e.event.transaction = IF overridden[e.by]
                                  THEN Some("new_transaction")
                                  ELSE RouteLabel(e.by)

C8_Witness ==
    \E e \in Entries :
        /\ e.raw.kind = "error"
        /\ overridden[e.by]
        /\ RouteLabel(e.by) = Some("failing")
        /\ e.event.transaction = Some("new_transaction")

\* C9: a request starts a session, on its own hub, exactly if a client is
\* bound whose options have auto_session_tracking set and session_mode
\* Request; when the client is closed after N >= 1 requests were served
\* with tracking on, one aggregate report with exited = N was emitted, and
\* none with tracking off.
C9_Sessions ==
    LET tracking == /\ client # None
                    /\ client[1].auto_session_tracking
                    /\ client[1].session_mode = "Request"
        served == Cardinality({r \in Requests : pc[r] = "done"})
    IN /\ \A r \in Requests :
             pc[r] # "idle" =>
                 /\ hubs[Unwrap(hubOf[r])].session # "none" <=> tracking
                 /\ hubs[Unwrap(hubOf[r])].session = "ended" <=> (tracking /\ pc[r] = "done")
       /\ Cardinality({h \in HubIds : hubs[h].session # "none"})
             = (IF tracking THEN Cardinality({r \in Requests : pc[r] # "idle"}) ELSE 0)
       /\ phase # "closed" => envelopes = <<>>
       /\ phase = "closed" =>
             envelopes = IF tracking /\ served >= 1
                         THEN <<[exited |-> served]>> ELSE <<>>

C9_Witness ==
    /\ phase = "closed"
    /\ \A r \in Requests : pc[r] = "done"
    /\ envelopes = <<[exited |-> MaxRequests]>>

\* C10: no event captured on a request's hub is dropped by the hook; the
\* event in the transport has the request data it was captured with if it
\* had any and the request snapshot otherwise, and its SDK info is the one
\* it reached the hook with plus, last, the sentry-actix package.
C10_Hook ==
    /\ HasClient => Len(events) = Total(captures, MaxRequests)
                                  + Total([r \in Requests |-> Len(reported[r])], MaxRequests)
    /\ \A e \in Entries :
          Some(e.hub) = hubOf[e.by] =>
             LET snapshot == sentry_request_from_http(Unwrap(http[e.by]), with_pii).sentry_req
                 sdk == IF e.raw.sdk = None THEN ClientSdk ELSE Unwrap(e.raw.sdk)
             IN /\ e.event.request = IF e.raw.request = None THEN Some(snapshot)
                                     ELSE e.raw.request
                /\ e.event.sdk # None
                /\ Unwrap(e.event.sdk).name = sdk.name
                /\ Unwrap(e.event.sdk).packages = sdk.packages \o <<ActixPackage>>

\* An event that came with request data of its own and one that came with
\* none went through the hook.
C10_Witness ==
    /\ \E e \in Entries : e.raw.request # None /\ e.event.request = e.raw.request
    /\ \E e \in Entries : e.raw.request = None /\ e.event.request # None
====
